---------------------------- MODULE Spec2Model ----------------------------
(***************************************************************************)
(* Model of the dbce core: the continuation tree of                        *)
(* src/src/engine/continuation.rs (BoardContinuation over a slot arena)    *)
(* and the packed board of src/src/baserules/rawboard.rs.                  *)
(*                                                                         *)
(* Spec      : two continuation trees driven by insert_psboard,            *)
(*             find_continuation_remove, merge and new.                    *)
(* SpecBoard : one set_loc on a board drawn from SeedBoards, and score().  *)
(* SpecIter  : a RawBoardIterator stepped over a board of SeedBoards.      *)
(* SpecMate  : SpecBoard followed by is_mate on the score or on any f32.   *)
(* SpecCache : one tree with scores set, make_cached_move and the          *)
(*             similar-quality queries.                                    *)
(* SpecScored: two trees with scores set, and merge.                       *)
(***************************************************************************)
EXTENDS Integers, Sequences, FiniteSets, TLC

VARIABLES
    tree,     \* tree[i]: the BoardContinuation owned by variable i, or Moved
    pre,      \* the value of tree before the last operation
    op,       \* the last operation and its arguments
    taken,    \* what the last find_continuation_remove returned (None/Some)
    nops,     \* number of operations performed so far
    raw,      \* the RawBoard: eight u32 row words
    rawPre,   \* the RawBoard before the last board operation
    bop,      \* the last board operation and its arguments
    it,       \* the RawBoardIterator over raw, and the calls made to next
    item,     \* what the last next() returned
    scoreRes, \* what the last score() returned
    mate,     \* what the last is_mate returned
    similar,  \* the last similar_quality_moves call and the nodes it yielded
    selected  \* the last select_similar_board call and its outcome

treeVars == <<tree, pre, op, taken, nops, similar, selected>>
boardVars == <<raw, rawPre, bop, it, item, scoreRes, mate>>
vars == <<tree, pre, op, taken, nops, raw, rawPre, bop, it, item, scoreRes,
          mate, similar, selected>>

---------------------------------------------------------------------------
(* Bounds                                                                  *)

\* Number of operations applied on top of the initial trees.
MaxOps == 3

\* Number of operations that change the tree in SpecCache.
MaxCacheOps == 2

\* Number of operations applied to the two trees in SpecScored.
MaxScoredOps == 3

\* Calls of next() made after the iterator is exhausted.
MaxExtraCalls == 2

\* PossibleMove values offered to the operations (compared by value).
Moves == {"e2e4", "e7e5"}

TreeIds == {1, 2}

None == [some |-> FALSE]
Some(v) == [some |-> TRUE, val |-> v]

\* A variable whose BoardContinuation was passed by value (merge takes it).
Moved == [moved |-> TRUE]

\* f32::NAN; every other f32 value is a record of whole part and fraction.
NaN == [nan |-> TRUE]

---------------------------------------------------------------------------
(* generational_arena::Arena as used by the continuation field.            *)
(* Slots are numbered from 0 as in the crate; slot k is items[k + 1].      *)
(* The generation counter is left out: the code never keeps an Index       *)
(* across two arena calls.                                                 *)

\* Arena::new() is Arena::with_capacity(DEFAULT_CAPACITY).
DEFAULT_CAPACITY == 4

FreeSlot(next) == [occupied |-> FALSE, next_free |-> next]
OccupiedSlot(v) == [occupied |-> TRUE, value |-> v]

\* Arena::reserve: appends n free slots chained start -> start+1 -> ... -> old head.
ArenaReserve(a, n) ==
    LET start == Len(a.items)
        end   == start + n
    IN [a EXCEPT
          !.items = a.items \o
              [k \in 1..n |->
                  IF start + k - 1 = end - 1
                  THEN FreeSlot(a.free_list_head)
                  ELSE FreeSlot(Some(start + k))],
          !.free_list_head = Some(start)]

ArenaNew ==
    ArenaReserve([items |-> <<>>, free_list_head |-> None, len |-> 0],
                 DEFAULT_CAPACITY)

\* Arena::try_insert on an arena whose free list is not empty.
ArenaTryInsert(a, v) ==
    LET i == a.free_list_head.val
    IN [items |-> [a.items EXCEPT ![i + 1] = OccupiedSlot(v)],
        free_list_head |-> a.items[i + 1].next_free,
        len |-> a.len + 1]

\* Arena::insert: the head of the free list, or grow by the current size first.
ArenaInsert(a, v) ==
    IF a.free_list_head.some
    THEN ArenaTryInsert(a, v)
    ELSE ArenaTryInsert(
           ArenaReserve(a, IF Len(a.items) = 0 THEN 1 ELSE Len(a.items)), v)

\* Arena::remove of an occupied slot: the slot becomes the free list's head.
ArenaRemove(a, i) ==
    [items |-> [a.items EXCEPT ![i + 1] = FreeSlot(a.free_list_head)],
     free_list_head |-> Some(i),
     len |-> a.len - 1]

\* The slot numbers Arena::iter visits, in increasing order.
OccupiedIdx(a) == {i \in 0..(Len(a.items) - 1) : a.items[i + 1].occupied}

\* Arena::iter / Arena::drain: the occupied values in slot order.
ArenaValues(a) ==
    LET F[k \in 0..Len(a.items)] ==
          IF k = 0 THEN <<>>
          ELSE IF a.items[k].occupied
               THEN Append(F[k - 1], a.items[k].value)
               ELSE F[k - 1]
    IN F[Len(a.items)]

---------------------------------------------------------------------------
(* BoardContinuation                                                        *)

\* The position handle (Arc<PSBoard>): who built it and after which moves.
Board(by, after) == [by |-> by, after |-> after]

\* BoardContinuation::new
New(board) ==
    [board |-> board, adjusted_score |-> NaN, continuation |-> ArenaNew]

\* iter(): the (move, child) pairs in slot order.
Iter(n) == ArenaValues(n.continuation)

\* keys()
Keys(n) == [k \in 1..Len(Iter(n)) |-> Iter(n)[k][1]]

\* values()
Values(n) == [k \in 1..Len(Iter(n)) |-> Iter(n)[k][2]]

\* continuation_exists
ContinuationExists(n, m) == \E k \in 1..Len(Keys(n)) : Keys(n)[k] = m

\* The find_map of the lookups: the first slot (in slot order) holding move m.
FindIndex(n, m) ==
    LET hits == {i \in OccupiedIdx(n.continuation) :
                    n.continuation.items[i + 1].value[1] = m}
    IN IF hits = {} THEN None
       ELSE Some(CHOOSE i \in hits : \A j \in hits : i <= j)

\* find_continuation / find_continuation_mut
FindContinuation(n, m) ==
    LET ix == FindIndex(n, m)
    IN IF ix.some THEN Some(n.continuation.items[ix.val + 1].value[2]) ELSE None

\* insert_psboard that keeps the node as it is when the move has an entry.
InsertPsboard_IfAbsent(n, m, board) ==
    IF ContinuationExists(n, m) THEN n
    ELSE [n EXCEPT !.continuation = ArenaInsert(n.continuation, <<m, New(board)>>)]

\* insert_psboard
InsertPsboard(n, m, board) ==
    [n EXCEPT !.continuation = ArenaInsert(n.continuation, <<m, New(board)>>)]

\* find_continuation_remove that hands out the entry but leaves it in the arena.
FindContinuationRemove_Keep(n, m) ==
    LET ix == FindIndex(n, m)
    IN IF ix.some
       THEN [node |-> n,
             ret  |-> Some(n.continuation.items[ix.val + 1].value[2])]
       ELSE [node |-> n, ret |-> None]

\* find_continuation_remove that also removes the next entry with the move.
FindContinuationRemove_Twice(n, m) ==
    LET ix == FindIndex(n, m)
    IN IF ix.some
       THEN LET once == [n EXCEPT !.continuation =
                           ArenaRemove(n.continuation, ix.val)]
                ix2  == FindIndex(once, m)
            IN [node |-> IF ix2.some
                         THEN [once EXCEPT !.continuation =
                                 ArenaRemove(once.continuation, ix2.val)]
                         ELSE once,
                ret  |-> Some(n.continuation.items[ix.val + 1].value[2])]
       ELSE [node |-> n, ret |-> None]

\* find_continuation_remove: the node afterwards and the returned Option.
FindContinuationRemove(n, m) ==
    LET ix == FindIndex(n, m)
    IN IF ix.some
       THEN [node |-> [n EXCEPT !.continuation =
                          ArenaRemove(n.continuation, ix.val)],
             ret  |-> Some(n.continuation.items[ix.val + 1].value[2])]
       ELSE [node |-> n, ret |-> None]

\* total_continuation_boards that counts the direct entries only.
TotalContinuationBoards_Shallow(n) == n.continuation.len

\* total_continuation_boards
RECURSIVE TotalContinuationBoards(_)
TotalContinuationBoards(n) ==
    LET vs == Values(n)
        S[k \in 0..Len(vs)] ==
          IF k = 0 THEN 0 ELSE S[k - 1] + TotalContinuationBoards(vs[k])
    IN n.continuation.len + S[Len(vs)]

\* merge that leaves an entry found in self as it is and discards the
\* drained subtree instead of merging it in.
Merge_DropFound(self, to_merge) ==
    LET drained == ArenaValues(to_merge.continuation)
        F[k \in 0..Len(drained)] ==
          IF k = 0 THEN self
          ELSE LET cur == F[k - 1]
               IN IF FindIndex(cur, drained[k][1]).some
                  THEN cur
                  ELSE [cur EXCEPT !.continuation = ArenaInsert(@, drained[k])]
    IN F[Len(drained)]

\* merge that overwrites the subtree of an entry found in self by the
\* drained subtree.
Merge_Overwrite(self, to_merge) ==
    LET drained == ArenaValues(to_merge.continuation)
        F[k \in 0..Len(drained)] ==
          IF k = 0 THEN self
          ELSE LET cur == F[k - 1]
                   ix  == FindIndex(cur, drained[k][1])
               IN IF ix.some
                  THEN [cur EXCEPT
                          !.continuation.items[ix.val + 1].value[2] =
                              drained[k][2]]
                  ELSE [cur EXCEPT !.continuation = ArenaInsert(@, drained[k])]
    IN F[Len(drained)]

\* merge that inserts every drained entry without looking for its move.
Merge_AlwaysInsert(self, to_merge) ==
    LET drained == ArenaValues(to_merge.continuation)
        F[k \in 0..Len(drained)] ==
          IF k = 0 THEN self
          ELSE [F[k - 1] EXCEPT !.continuation = ArenaInsert(@, drained[k])]
    IN F[Len(drained)]

\* merge: to_merge's entries are drained in slot order; each is merged into
\* the first entry of self with the same move, or inserted when there is none.
RECURSIVE Merge(_, _)
Merge(self, to_merge) ==
    LET drained == ArenaValues(to_merge.continuation)
        F[k \in 0..Len(drained)] ==
          IF k = 0 THEN self
          ELSE LET cur   == F[k - 1]
                   amove == drained[k][1]
                   sub   == drained[k][2]
                   ix    == FindIndex(cur, amove)
               IN IF ix.some
                  THEN [cur EXCEPT
                          !.continuation.items[ix.val + 1].value[2] =
                              Merge(@, sub)]
                  ELSE [cur EXCEPT
                          !.continuation =
                              ArenaInsert(@, <<amove, sub>>)]
    IN F[Len(drained)]

---------------------------------------------------------------------------
(* Addressing a node below a root: a chain of find_continuation_mut calls. *)

RECURSIVE NodeAt(_, _)
NodeAt(n, path) ==
    IF path = <<>> THEN Some(n)
    ELSE LET c == FindContinuation(n, Head(path))
         IN IF c.some THEN NodeAt(c.val, Tail(path)) ELSE None

\* The root after the node at path (which exists) is replaced by new.
RECURSIVE ReplaceAt(_, _, _)
ReplaceAt(n, path, new) ==
    IF path = <<>> THEN new
    ELSE LET ix == FindIndex(n, Head(path))
         IN [n EXCEPT !.continuation.items[ix.val + 1].value[2] =
                          ReplaceAt(@, Tail(path), new)]

\* The move sequences that lead to a node from n, each step by find_continuation.
RECURSIVE Paths(_)
Paths(n) ==
    UNION {
        LET c == FindContinuation(n, m)
        IN IF c.some
           THEN {<<m>>} \cup {<<m>> \o p : p \in Paths(c.val)}
           ELSE {}
        : m \in Moves }

\* The test helper create_simple_cont: the starting position with e2e4 explored.
CreateSimpleCont(i) ==
    InsertPsboard(New(Board(i, <<>>)), "e2e4", Board(i, <<"e2e4">>))

---------------------------------------------------------------------------
(* u32 words.  A word is its 32 bits, bit 0 the least significant: a row   *)
(* with a White piece in column 7 exceeds the 32-bit integers of TLC.      *)

\* u32::BITS
U32_BITS == 32

BitIdx == 0..(U32_BITS - 1)

\* The word of a number below 2^31.
U32(n) == [i \in BitIdx |-> IF i >= 31 THEN 0 ELSE (n \div (2 ^ i)) % 2]

\* x << s and x >> s for 0 <= s < 32
Shl(x, s) == [i \in BitIdx |-> IF i >= s THEN x[i - s] ELSE 0]
Shr(x, s) == [i \in BitIdx |-> IF i + s < U32_BITS THEN x[i + s] ELSE 0]

BitAnd(x, y) == [i \in BitIdx |-> x[i] * y[i]]
BitOr(x, y) == [i \in BitIdx |-> IF x[i] + y[i] > 0 THEN 1 ELSE 0]
BitNot(x) == [i \in BitIdx |-> 1 - x[i]]

\* The 4-bit value at bits 4k .. 4k+3 of a word.
Nibble(x, k) == x[4 * k] + 2 * x[4 * k + 1] + 4 * x[4 * k + 2] + 8 * x[4 * k + 3]

---------------------------------------------------------------------------
(* Pieces                                                                   *)

Kinds == {"Pawn", "Knight", "Bishop", "Rook", "Queen", "King"}
Colors == {"Black", "White"}

Piece(kind, color) == Some([kind |-> kind, color |-> color])

\* Option<PieceState>: empty or one of the 12 (kind, color) pieces.
PieceOptions == {None} \cup {Piece(k, c) : k \in Kinds, c \in Colors}

\* PieceColor::from_u8
PieceColor_from_u8(colour) ==
    IF (colour \div 8) % 2 > 0 THEN "White" ELSE "Black"

\* PieceColor::add_to_u8
PieceColor_add_to_u8(color, prepped) ==
    LET bit == IF color = "White" THEN 8 ELSE 0
    IN IF (prepped \div 8) % 2 = 1 THEN prepped ELSE prepped + bit

\* The 3-bit code of a piece kind (piece_kind.rs is not part of the sources):
\* distinct non-zero values below the colour bit.
PieceKind_to_u8(kind) ==
    CASE kind = "Pawn"   -> 1
      [] kind = "Knight" -> 2
      [] kind = "Bishop" -> 3
      [] kind = "Rook"   -> 4
      [] kind = "Queen"  -> 5
      [] kind = "King"   -> 6

\* PieceState::bits (piece_state.rs is not part of the sources): the all-zero
\* nibble for an empty square, the kind code with the colour bit otherwise.
PieceState_bits(piece) ==
    IF piece.some
    THEN PieceColor_add_to_u8(piece.val.color, PieceKind_to_u8(piece.val.kind))
    ELSE 0

\* The decoding of one nibble value.
DecodeNibble(n) ==
    IF \E k \in Kinds : PieceKind_to_u8(k) = n % 8
    THEN Piece(CHOOSE k \in Kinds : PieceKind_to_u8(k) = n % 8,
               PieceColor_from_u8(n))
    ELSE None

\* PieceState::from_u8 (piece_state.rs is not part of the sources). Its
\* callers hand it a nibble either shifted down (index) or masked in place
\* (the iterator): it decodes the lowest non-zero nibble of its argument.
PieceState_from_u8(bits) ==
    LET nz == {k \in 0..7 : Nibble(bits, k) # 0}
    IN IF nz = {} THEN None
       ELSE DecodeNibble(Nibble(bits, CHOOSE k \in nz : \A j \in nz : k <= j))

---------------------------------------------------------------------------
(* RawBoard                                                                 *)

Rows == 0..7
Cols == 0..7

\* RawBoard::empty
Empty == [r \in Rows |-> U32(0)]

\* set_loc that ORs the new nibble in without clearing the old one.
SetLoc_NoClear(board, row, col, piece) ==
    LET shift_amount == (col * 4) % 256
    IN [board EXCEPT ![row] =
           BitOr(board[row], Shl(U32(PieceState_bits(piece)), shift_amount))]

\* set_loc whose mask clears the whole byte the square lies in.
SetLoc_ByteMask(board, row, col, piece) ==
    LET shift_amount == (col * 4) % 256
        piece_mask   == BitNot(Shl(U32(255), 8 * (col \div 2)))
        a_row        == BitAnd(board[row], piece_mask)
        a_bit_piece  == Shl(U32(PieceState_bits(piece)), shift_amount)
    IN [board EXCEPT ![row] = BitOr(a_row, a_bit_piece)]

\* RawBoard::set_loc
SetLoc(board, row, col, piece) ==
    LET shift_amount == (col * 4) % 256
        piece_mask   == BitNot(Shl(U32(15), shift_amount))
        a_row        == BitAnd(board[row], piece_mask)
        a_bit_piece  == Shl(U32(PieceState_bits(piece)), shift_amount)
    IN [board EXCEPT ![row] = BitOr(a_row, a_bit_piece)]

\* Index<BoardPos> for RawBoard
Index(board, row, col) ==
    LET a_row       == board[row]
        a_bit_piece == BitAnd(Shr(a_row, (col * 4) % 256), U32(15))
    IN PieceState_from_u8(a_bit_piece)

\* generate_masks / ALL_POSSIBLE_MASKS
ALL_POSSIBLE_MASKS == [index \in 0..((U32_BITS \div 4) - 1) |->
                          Shl(U32(15), 4 * index)]

\* into_iter
IntoIter == [curr_idx |-> 0, calls |-> 0]

\* next() whose row and column selectors are exchanged.
IteratorNext_Swapped(board, iter) ==
    IF iter.curr_idx = 64
    THEN [iter |-> [iter EXCEPT !.calls = @ + 1], ret |-> None]
    ELSE [iter |-> [curr_idx |-> iter.curr_idx + 1, calls |-> iter.calls + 1],
          ret  |-> Some(PieceState_from_u8(
                      BitAnd(ALL_POSSIBLE_MASKS[iter.curr_idx \div 8],
                             board[iter.curr_idx % 8])))]

\* Iterator::next for RawBoardIterator: the iterator afterwards and the
\* returned Option (calls counts the calls made, for the claims).
IteratorNext(board, iter) ==
    IF iter.curr_idx = 64
    THEN [iter |-> [iter EXCEPT !.calls = @ + 1], ret |-> None]
    ELSE [iter |-> [curr_idx |-> iter.curr_idx + 1, calls |-> iter.calls + 1],
          ret  |-> Some(PieceState_from_u8(
                      BitAnd(ALL_POSSIBLE_MASKS[iter.curr_idx % 8],
                             board[iter.curr_idx \div 8])))]

\* The 64 items a full iteration yields, in order: item k is what next()
\* returns on its k-th call, when curr_idx is k - 1.
IterItems(board) ==
    [k \in 1..64 |->
        IteratorNext(board, [curr_idx |-> k - 1, calls |-> k - 1]).ret.val]

---------------------------------------------------------------------------
(* f32 scores.  A material score is held as an integer count of 2^-22, the *)
(* spacing of f32 values between 2 and 4, in which 3.1f32 is a whole       *)
(* number; every addition rounds to f32's 24-bit significand, ties to      *)
(* even.  Counts stay below 2^31 (scores below 512).                       *)

F32Unit == 2 ^ 22

\* The f32 literal 3.1f32 = 13002342 * 2^-22 (3.099999904...).
BISHOP_VALUE == 13002342

Abs(n) == IF n < 0 THEN 0 - n ELSE n

\* The f32 nearest to n * 2^-22 (round to nearest, ties to even), in units.
RoundF32(n) ==
    LET a == Abs(n)
    IN IF a < 2 ^ 24 THEN n
       ELSE LET e    == CHOOSE k \in 24..30 : 2 ^ k <= a /\ (k = 30 \/ a < 2 ^ (k + 1))
                q    == 2 ^ (e - 23)
                r    == a % q
                down == a - r
                up   == down + q
                m    == IF 2 * r < q THEN down
                        ELSE IF 2 * r > q THEN up
                        ELSE IF (down \div q) % 2 = 0 THEN down ELSE up
            IN IF n < 0 THEN 0 - m ELSE m

\* f32 addition
AddF32(x, y) == RoundF32(x + y)

\* An f32 value as whole part (floor) and fraction in units of 2^-22.
F32FromUnits(n) == [whole |-> n \div F32Unit, frac |-> n % F32Unit]

\* pub static MATE: f32 = 1000.0
MATE == 1000

MateScore == [whole |-> MATE, frac |-> 0]
NegMateScore == [whole |-> 0 - MATE, frac |-> 0]

\* Arithmetic on f32 values held as whole part and fraction (whole parts
\* below 2^22 in size, as MATE and the material sums are).
F32Neg(x) ==
    IF x.frac = 0 THEN [whole |-> 0 - x.whole, frac |-> 0]
    ELSE [whole |-> 0 - x.whole - 1, frac |-> F32Unit - x.frac]

\* f32::abs
F32Abs(x) == IF x.whole < 0 THEN F32Neg(x) ELSE x

\* < on f32
F32Less(x, y) ==
    x.whole < y.whole \/ (x.whole = y.whole /\ x.frac < y.frac)

\* The f32 nearest to a non-negative value (ties to even): from 2^e on the
\* f32 values are 2^(e-23) apart, which is 2^(e-1) units of the fraction.
F32RoundMag(x) ==
    IF x.whole < 4 THEN x
    ELSE LET e    == CHOOSE k \in 2..22 :
                       2 ^ k <= x.whole /\ x.whole < 2 ^ (k + 1)
             q    == 2 ^ (e - 1)
             r    == x.frac % q
             down == x.frac - r
             up   == down + q
             m    == IF 2 * r < q THEN down
                     ELSE IF 2 * r > q THEN up
                     ELSE IF (down \div q) % 2 = 0 THEN down ELSE up
         IN IF m = F32Unit THEN [whole |-> x.whole + 1, frac |-> 0]
            ELSE [whole |-> x.whole, frac |-> m]

F32Round(x) ==
    IF x.whole < 0 THEN F32Neg(F32RoundMag(F32Neg(x))) ELSE F32RoundMag(x)

\* f32 subtraction: the exact difference, rounded.
F32Sub(x, y) ==
    F32Round(IF x.frac >= y.frac
             THEN [whole |-> x.whole - y.whole, frac |-> x.frac - y.frac]
             ELSE [whole |-> x.whole - y.whole - 1,
                   frac  |-> F32Unit + x.frac - y.frac])

\* The 50.0 of is_mate.
MATE_WINDOW == [whole |-> 50, frac |-> 0]

\* is_mate that leaves out the abs() of the score.
IsMate_NoAbs(score) ==
    IF score = NaN THEN FALSE
    ELSE F32Less(F32Abs(F32Sub(score, MateScore)), MATE_WINDOW)

\* is_mate: (score.abs() - MATE).abs() < 50.0; every comparison with a NaN
\* is false.
IsMate(score) ==
    IF score = NaN THEN FALSE
    ELSE F32Less(F32Abs(F32Sub(F32Abs(score), MateScore)), MATE_WINDOW)

\* The score arms with the sign of the Black knight lost.
ScoreAdjust_KnightSign(piece) ==
    LET sign == IF piece.color = "White" \/ piece.kind = "Knight" THEN 1 ELSE 0 - 1
    IN sign * (CASE piece.kind = "Pawn"   -> 1 * F32Unit
                 [] piece.kind = "Knight" -> 3 * F32Unit
                 [] piece.kind = "Bishop" -> BISHOP_VALUE
                 [] piece.kind = "Rook"   -> 5 * F32Unit
                 [] piece.kind = "Queen"  -> 9 * F32Unit
                 [] piece.kind = "King"   -> 0)

\* The match of score(): the score adjustment of one piece, in units.
ScoreAdjust(piece) ==
    LET sign == IF piece.color = "White" THEN 1 ELSE 0 - 1
    IN sign * (CASE piece.kind = "Pawn"   -> 1 * F32Unit
                 [] piece.kind = "Knight" -> 3 * F32Unit
                 [] piece.kind = "Bishop" -> BISHOP_VALUE
                 [] piece.kind = "Rook"   -> 5 * F32Unit
                 [] piece.kind = "Queen"  -> 9 * F32Unit
                 [] piece.kind = "King"   -> 0)

\* The fold of score() over the iterator's items, in their order:
\* (loc_score, white_king_found, black_king_found). Empty squares are
\* skipped (the filter_map); the sum is carried through the eight items of
\* one row at a time; the two flags are the OR over all items, which does
\* not depend on the order.
ScoreFold(board) ==
    LET items == IterItems(board)
        Eight[acc \in Int, row \in 0..7] ==
          LET F[c \in 0..8] ==
                IF c = 0 THEN acc
                ELSE IF items[8 * row + c].some
                     THEN AddF32(F[c - 1], ScoreAdjust(items[8 * row + c].val))
                     ELSE F[c - 1]
          IN F[8]
        G[n \in 0..8] == IF n = 0 THEN 0 ELSE Eight[G[n - 1], n - 1]
    IN [loc_score  |-> G[8],
        white_king |-> \E k \in 1..64 :
                          items[k] = Piece("King", "White"),
        black_king |-> \E k \in 1..64 :
                          items[k] = Piece("King", "Black")]

\* score() that tests the Black king first.
Score_BlackFirst(board) ==
    LET f == ScoreFold(board)
    IN IF f.black_king
       THEN IF f.white_king THEN F32FromUnits(f.loc_score) ELSE NegMateScore
       ELSE MateScore

\* RawBoard::score
Score(board) ==
    LET f == ScoreFold(board)
    IN IF f.white_king
       THEN IF f.black_king THEN F32FromUnits(f.loc_score) ELSE MateScore
       ELSE NegMateScore

---------------------------------------------------------------------------
(* The boards the board specifications start from, each built by set_loc   *)
(* calls on RawBoard::empty().                                             *)

\* Number of boards drawn from.
NumSeeds == 5

\* The board holding content[row][col] on every square: eight set_loc
\* calls per row (set_loc touches the row it is given only).
BoardOf(content) ==
    [r \in Rows |->
        LET F[k \in 0..8] ==
              IF k = 0 THEN Empty
              ELSE SetLoc(F[k - 1], r, k - 1, content[r][k - 1])
        IN F[8][r]]

BackRank == [c \in Cols |->
    CASE c \in {0, 7} -> "Rook"
      [] c \in {1, 6} -> "Knight"
      [] c \in {2, 5} -> "Bishop"
      [] c = 3        -> "Queen"
      [] c = 4        -> "King"]

\* The standard starting position (White on rows 0 and 1, Black on 6 and 7).
StartingPosition ==
    BoardOf([r \in Rows |-> [c \in Cols |->
        CASE r = 0 -> Piece(BackRank[c], "White")
          [] r = 1 -> Piece("Pawn", "White")
          [] r = 6 -> Piece("Pawn", "Black")
          [] r = 7 -> Piece(BackRank[c], "Black")
          [] OTHER -> None]])

\* Queen, bishop and king per side: equal material on both sides.
QueenBishopEach ==
    BoardOf([r \in Rows |-> [c \in Cols |->
        CASE r = 0 /\ c = 0 -> Piece("Queen", "White")
          [] r = 0 /\ c = 1 -> Piece("Bishop", "White")
          [] r = 0 /\ c = 4 -> Piece("King", "White")
          [] r = 7 /\ c = 0 -> Piece("Queen", "Black")
          [] r = 7 /\ c = 1 -> Piece("Bishop", "Black")
          [] r = 7 /\ c = 4 -> Piece("King", "Black")
          [] OTHER -> None]])

\* The two kings alone.
KingsOnly ==
    BoardOf([r \in Rows |-> [c \in Cols |->
        CASE r = 0 /\ c = 4 -> Piece("King", "White")
          [] r = 7 /\ c = 4 -> Piece("King", "Black")
          [] OTHER -> None]])

PieceList == <<None,
    Piece("Pawn", "White"), Piece("Pawn", "Black"),
    Piece("Knight", "White"), Piece("Knight", "Black"),
    Piece("Bishop", "White"), Piece("Bishop", "Black"),
    Piece("Rook", "White"), Piece("Rook", "Black"),
    Piece("Queen", "White"), Piece("Queen", "Black"),
    Piece("King", "White"), Piece("King", "Black")>>

\* A full board mixing every square value over every column, varied by i.
Scatter(i) ==
    BoardOf([r \in Rows |-> [c \in Cols |->
        PieceList[((i * 5 + r * 3 + c * 7 + r * c) % 13) + 1]]])

SeedBoard(i) ==
    CASE i = 1 -> Empty
      [] i = 2 -> StartingPosition
      [] i = 3 -> QueenBishopEach
      [] i = 4 -> KingsOnly
      [] OTHER -> Scatter(i)

SeedBoards == {SeedBoard(i) : i \in 1..NumSeeds}

---------------------------------------------------------------------------
(* Operations                                                               *)

Live(i) == tree[i] # Moved

\* BoardContinuation::default() bound to a variable that was moved out of.
NewTree(i) ==
    /\ nops < MaxOps
    /\ ~Live(i)
    /\ tree' = [tree EXCEPT ![i] = New(Board(i, <<>>))]
    /\ pre' = tree
    /\ op' = [name |-> "new", i |-> i]
    /\ taken' = None
    /\ nops' = nops + 1
    /\ similar' = None /\ selected' = None
    /\ UNCHANGED boardVars

\* insert_psboard on the node reached from tree[i] by path.
DoInsert(i, path, m) ==
    /\ nops < MaxOps
    /\ Live(i)
    /\ NodeAt(tree[i], path).some
    /\ LET n == NodeAt(tree[i], path).val
       IN tree' = [tree EXCEPT ![i] =
              ReplaceAt(tree[i], path,
                        InsertPsboard(n, m, Board(i, Append(path, m))))]
    /\ pre' = tree
    /\ op' = [name |-> "insert_psboard", i |-> i, path |-> path, move |-> m]
    /\ taken' = None
    /\ nops' = nops + 1
    /\ similar' = None /\ selected' = None
    /\ UNCHANGED boardVars

\* find_continuation_remove on the node reached from tree[i] by path.
DoTake(i, path, m) ==
    /\ nops < MaxOps
    /\ Live(i)
    /\ NodeAt(tree[i], path).some
    /\ LET r == FindContinuationRemove(NodeAt(tree[i], path).val, m)
       IN /\ tree' = [tree EXCEPT ![i] = ReplaceAt(tree[i], path, r.node)]
          /\ taken' = r.ret
    /\ pre' = tree
    /\ op' = [name |-> "find_continuation_remove", i |-> i, path |-> path,
              move |-> m]
    /\ nops' = nops + 1
    /\ similar' = None /\ selected' = None
    /\ UNCHANGED boardVars

\* tree[i].merge(tree[j]): tree[j] is passed by value and is gone afterwards.
DoMerge(i, j) ==
    /\ nops < MaxOps
    /\ i # j
    /\ Live(i) /\ Live(j)
    /\ tree' = [tree EXCEPT ![i] = Merge(tree[i], tree[j]), ![j] = Moved]
    /\ pre' = tree
    /\ op' = [name |-> "merge", i |-> i, j |-> j]
    /\ taken' = None
    /\ nops' = nops + 1
    /\ similar' = None /\ selected' = None
    /\ UNCHANGED boardVars

\* Paths of length < MaxOps over Moves (every node a run can build is below).
PathsUpTo(k) ==
    UNION {[1..d -> Moves] : d \in 0..k}

TreeInit ==
    /\ tree \in [TreeIds -> {New(Board(1, <<>>)), New(Board(2, <<>>)),
                             CreateSimpleCont(1), CreateSimpleCont(2)}]
    /\ \A i \in TreeIds : tree[i].board.by = i
    /\ pre = tree
    /\ op = [name |-> "init"]
    /\ taken = None
    /\ nops = 0
    /\ similar = None
    /\ selected = None

BoardInit ==
    /\ raw \in SeedBoards
    /\ rawPre = raw
    /\ bop = [name |-> "init"]
    /\ it = None
    /\ item = None
    /\ scoreRes = None
    /\ mate = None

Init ==
    /\ TreeInit
    /\ raw = Empty /\ rawPre = Empty /\ bop = [name |-> "init"]
    /\ it = None /\ item = None /\ scoreRes = None /\ mate = None

Next ==
    \/ \E i \in TreeIds : NewTree(i)
    \/ \E i \in TreeIds, p \in PathsUpTo(MaxOps), m \in Moves : DoInsert(i, p, m)
    \/ \E i \in TreeIds, p \in PathsUpTo(MaxOps), m \in Moves : DoTake(i, p, m)
    \/ \E i, j \in TreeIds : DoMerge(i, j)

Spec == Init /\ [][Next]_vars

---------------------------------------------------------------------------
(* Board operations                                                         *)

\* set_loc((row, col), piece), applied once to the board drawn at the start.
DoSetLoc(row, col, piece) ==
    /\ bop.name = "init"
    /\ raw' = SetLoc(raw, row, col, piece)
    /\ rawPre' = raw
    /\ bop' = [name |-> "set_loc", row |-> row, col |-> col, piece |-> piece]
    /\ scoreRes' = None
    /\ UNCHANGED <<it, item, mate>>
    /\ UNCHANGED treeVars

\* score()
DoScore ==
    /\ ~scoreRes.some
    /\ scoreRes' = Some(Score(raw))
    /\ UNCHANGED <<raw, rawPre, bop, it, item, mate>>
    /\ UNCHANGED treeVars

\* into_iter() on the board
DoIntoIter ==
    /\ ~it.some
    /\ it' = Some(IntoIter)
    /\ item' = None
    /\ UNCHANGED <<raw, rawPre, bop, scoreRes, mate>>
    /\ UNCHANGED treeVars

\* next() on the iterator, up to MaxExtraCalls calls past the 64 items.
DoIterNext ==
    /\ it.some
    /\ it.val.calls < 64 + MaxExtraCalls
    /\ LET r == IteratorNext(raw, it.val)
       IN /\ it' = Some(r.iter)
          /\ item' = r.ret
    /\ UNCHANGED <<raw, rawPre, bop, scoreRes, mate>>
    /\ UNCHANGED treeVars

BoardSpecInit ==
    /\ BoardInit
    /\ tree = [i \in TreeIds |-> New(Board(i, <<>>))]
    /\ pre = tree
    /\ op = [name |-> "init"]
    /\ taken = None
    /\ nops = 0
    /\ similar = None
    /\ selected = None

NextBoard ==
    \/ \E r \in Rows, c \in Cols, v \in PieceOptions : DoSetLoc(r, c, v)
    \/ DoScore

SpecBoard == BoardSpecInit /\ [][NextBoard]_vars

NextIter ==
    \/ DoIntoIter
    \/ DoIterNext

SpecIter == BoardSpecInit /\ [][NextIter]_vars

---------------------------------------------------------------------------
(* make_cached_move and the similar-quality queries                         *)

\* 0.05f32 as a count of 2^-28: the f32 nearest to 0.05 (0x3D4CCCCD).
SIMILAR_EPSILON == 13421773

\* f32::max and f32::min: when one argument is NaN the other is returned.
F32Max(x, y) ==
    IF x = NaN THEN y ELSE IF y = NaN THEN x
    ELSE IF F32Less(x, y) THEN y ELSE x

F32Min(x, y) ==
    IF x = NaN THEN y ELSE IF y = NaN THEN x
    ELSE IF F32Less(y, x) THEN y ELSE x

\* f32 subtraction with NaN operands.
F32SubNaN(x, y) == IF x = NaN \/ y = NaN THEN NaN ELSE F32Sub(x, y)

\* d < 0.05 for an f32 d; false for NaN.
LessThanEpsilon(d) ==
    /\ d # NaN
    /\ \/ d.whole < 0
       \/ d.whole = 0 /\ d.frac * 64 < SIMILAR_EPSILON

\* The score functions handed to the queries: the adjusted_score field, and
\* the number of cached boards below the node (never NaN).
ScoreFns == {"adjusted_score", "total"}

ScoreQuery(fn, n) ==
    IF fn = "adjusted_score" THEN n.adjusted_score
    ELSE [whole |-> TotalContinuationBoards(n), frac |-> 0]

\* similar_quality_moves that filters with |a - b| computed on the scores
\* as they are, so that a NaN on either side fails the comparison.
SimilarQualityMoves_Strict(n, best_board, fn) ==
    LET bb_score == ScoreQuery(fn, best_board)
        Keep(other) ==
          LET other_score == ScoreQuery(fn, other)
          IN LessThanEpsilon(
                 IF other_score = NaN \/ bb_score = NaN THEN NaN
                 ELSE F32Abs(F32Sub(other_score, bb_score)))
    IN SelectSeq(Values(n), Keep)

\* similar_quality_moves: the children, in slot order, that pass the filter.
SimilarQualityMoves(n, best_board, fn) ==
    LET bb_score == ScoreQuery(fn, best_board)
        Keep(other) ==
          LET other_score == ScoreQuery(fn, other)
          IN LessThanEpsilon(F32SubNaN(F32Max(other_score, bb_score),
                                       F32Min(other_score, bb_score)))
    IN SelectSeq(Values(n), Keep)

\* The panic of gen_range on an empty range.
Panic == [panic |-> TRUE]

\* select_similar_board that draws its index over all the children.
SelectSimilarBoard_AnyChild(n, best_board, fn) ==
    LET choices == Len(Values(n))
    IN IF choices = 0 THEN {Panic}
       ELSE {Some(Values(n)[k + 1]) : k \in 0..(choices - 1)}

\* select_similar_board: the outcomes over every value of the random index.
SelectSimilarBoard(n, best_board, fn) ==
    LET found   == SimilarQualityMoves(n, best_board, fn)
        choices == Len(found)
    IN IF choices = 0 THEN {Panic}
       ELSE {Some(found[k + 1]) : k \in 0..(choices - 1)}

\* PSBoard::make_move_noncached: the position after the move.
MakeMoveNoncached(board, m) == Board(board.by, Append(board.after, m))

\* make_cached_move that never looks into the cache.
MakeCachedMove_AlwaysNew(n, m) == New(MakeMoveNoncached(n.board, m))

\* make_cached_move
MakeCachedMove(n, m) ==
    LET r == FindContinuationRemove(n, m)
    IN IF r.ret.some THEN r.ret.val
       ELSE New(MakeMoveNoncached(n.board, m))

\* The scores a caller writes into adjusted_score: 0, the largest count of
\* 2^-22 below 0.05, and a value further than 0.05 from both.
AdjustedScores ==
    {F32FromUnits(0), F32FromUnits(F32Unit \div 20),
     F32FromUnits(2 * (F32Unit \div 20) + 1)}

\* node.adjusted_score = s on the node reached from tree[i] by path.
DoSetScore(i, path, s) ==
    /\ nops < MaxOps
    /\ Live(i)
    /\ NodeAt(tree[i], path).some
    /\ tree' = [tree EXCEPT ![i] =
           ReplaceAt(tree[i], path,
                     [NodeAt(tree[i], path).val EXCEPT !.adjusted_score = s])]
    /\ pre' = tree
    /\ op' = [name |-> "set_score", i |-> i, path |-> path, score |-> s]
    /\ taken' = None
    /\ nops' = nops + 1
    /\ similar' = None /\ selected' = None
    /\ UNCHANGED boardVars

\* tree[i] = tree[i].make_cached_move(m): the root is consumed.
DoMakeCachedMove(i, m) ==
    /\ nops < MaxOps
    /\ Live(i)
    /\ tree' = [tree EXCEPT ![i] = MakeCachedMove(tree[i], m)]
    /\ pre' = tree
    /\ op' = [name |-> "make_cached_move", i |-> i, move |-> m]
    /\ taken' = None
    /\ nops' = nops + 1
    /\ similar' = None /\ selected' = None
    /\ UNCHANGED boardVars

\* similar_quality_moves on the node at path of tree[i], the reference being
\* the node at rpath of the same tree; the tree is only read.  A query is
\* started from a state without a query result: it reads the tree only, so
\* a query made after another reaches nothing the first could not.
DoSimilarQualityMoves(i, path, rpath, fn) ==
    /\ ~similar.some /\ ~selected.some
    /\ Live(i)
    /\ NodeAt(tree[i], path).some
    /\ NodeAt(tree[i], rpath).some
    /\ similar' = Some([i |-> i, path |-> path, rpath |-> rpath, fn |-> fn,
                        nodes |-> SimilarQualityMoves(NodeAt(tree[i], path).val,
                                                      NodeAt(tree[i], rpath).val,
                                                      fn)])
    /\ selected' = None
    /\ UNCHANGED <<tree, pre, op, taken, nops>>
    /\ UNCHANGED boardVars

\* select_similar_board, likewise; one step per value of the random index.
DoSelectSimilarBoard(i, path, rpath, fn) ==
    /\ ~similar.some /\ ~selected.some
    /\ Live(i)
    /\ NodeAt(tree[i], path).some
    /\ NodeAt(tree[i], rpath).some
    /\ \E out \in SelectSimilarBoard(NodeAt(tree[i], path).val,
                                     NodeAt(tree[i], rpath).val, fn) :
          selected' = Some([i |-> i, path |-> path, rpath |-> rpath,
                            fn |-> fn, outcome |-> out])
    /\ similar' = None
    /\ UNCHANGED <<tree, pre, op, taken, nops>>
    /\ UNCHANGED boardVars

\* One tree, empty or with e2e4 explored; the second variable holds none.
CacheInit ==
    /\ tree \in [TreeIds -> {New(Board(1, <<>>)), CreateSimpleCont(1), Moved}]
    /\ Live(1) /\ ~Live(2)
    /\ pre = tree
    /\ op = [name |-> "init"]
    /\ taken = None
    /\ nops = 0
    /\ similar = None
    /\ selected = None
    /\ raw = Empty /\ rawPre = Empty /\ bop = [name |-> "init"]
    /\ it = None /\ item = None /\ scoreRes = None /\ mate = None

\* The operations that change the tree, at most MaxCacheOps of them.
CacheInsert(i, path, m) == nops < MaxCacheOps /\ DoInsert(i, path, m)
CacheSetScore(i, path, x) == nops < MaxCacheOps /\ DoSetScore(i, path, x)
CacheMakeCachedMove(i, m) == nops < MaxCacheOps /\ DoMakeCachedMove(i, m)

NextCache ==
    \/ \E i \in TreeIds, p \in PathsUpTo(MaxCacheOps), m \in Moves :
          CacheInsert(i, p, m)
    \/ \E i \in TreeIds, p \in PathsUpTo(MaxCacheOps), x \in AdjustedScores :
          CacheSetScore(i, p, x)
    \/ \E i \in TreeIds, m \in Moves : CacheMakeCachedMove(i, m)
    \/ \E i \in TreeIds, p, q \in PathsUpTo(MaxCacheOps), fn \in ScoreFns :
          DoSimilarQualityMoves(i, p, q, fn)
    \/ \E i \in TreeIds, p, q \in PathsUpTo(MaxCacheOps), fn \in ScoreFns :
          DoSelectSimilarBoard(i, p, q, fn)

SpecCache == CacheInit /\ [][NextCache]_vars

\* Two trees whose nodes get scores before one is merged into the other.
ScoredInsert(i, path, m) == nops < MaxScoredOps /\ DoInsert(i, path, m)
ScoredSetScore(i, path, x) == nops < MaxScoredOps /\ DoSetScore(i, path, x)
ScoredMerge(i, j) == nops < MaxScoredOps /\ DoMerge(i, j)

NextScored ==
    \/ \E i \in TreeIds, p \in PathsUpTo(MaxScoredOps), m \in Moves :
          ScoredInsert(i, p, m)
    \/ \E i \in TreeIds, p \in PathsUpTo(MaxScoredOps), x \in AdjustedScores :
          ScoredSetScore(i, p, x)
    \/ \E i, j \in TreeIds : ScoredMerge(i, j)

SpecScored == Init /\ [][NextScored]_vars

---------------------------------------------------------------------------
(* is_mate                                                                  *)

\* Largest whole part of the f32 values is_mate is tried on.
ProbeSpan == 1100

\* Fractions tried with every whole part, in units of 2^-22.
ProbeFracs == {0, 1, 1024, F32Unit \div 2, F32Unit - 1024, F32Unit - 1}

\* The f32 values is_mate is tried on besides the results of score(): NaN
\* and every value of the grid that is an f32.
ProbeScores ==
    {NaN} \cup {x \in [whole : (0 - ProbeSpan)..ProbeSpan, frac : ProbeFracs] :
                   F32Round(x) = x}

\* is_mate(score()) for the board as it is.
DoIsMate ==
    /\ scoreRes.some
    /\ bop.name # "is_mate"
    /\ mate' = Some(IsMate(scoreRes.val))
    /\ bop' = [name |-> "is_mate", arg |-> scoreRes.val, from_score |-> TRUE]
    /\ UNCHANGED <<raw, rawPre, it, item, scoreRes>>
    /\ UNCHANGED treeVars

\* is_mate on a score the search has adjusted: any f32 value.
DoIsMateAdjusted ==
    /\ scoreRes.some
    /\ bop.name = "init"
    /\ \E x \in ProbeScores :
          /\ mate' = Some(IsMate(x))
          /\ bop' = [name |-> "is_mate", arg |-> x, from_score |-> FALSE]
    /\ UNCHANGED <<raw, rawPre, it, item, scoreRes>>
    /\ UNCHANGED treeVars

NextMate ==
    \/ \E r \in Rows, c \in Cols, v \in PieceOptions : DoSetLoc(r, c, v)
    \/ DoScore
    \/ DoIsMate
    \/ DoIsMateAdjusted

SpecMate == BoardSpecInit /\ [][NextMate]_vars

---------------------------------------------------------------------------
(* Vocabulary of the continuation-tree claims                               *)

\* Number of direct entries of n that hold move m.
EntriesFor(n, m) ==
    Cardinality({i \in OccupiedIdx(n.continuation) :
                    n.continuation.items[i + 1].value[1] = m})

\* No node of the tree holds two entries with the same move.
RECURSIVE NoDupTree(_)
NoDupTree(n) ==
    /\ \A m \in Moves : EntriesFor(n, m) <= 1
    /\ \A k \in 1..Len(Values(n)) : NoDupTree(Values(n)[k])

Max(x, y) == IF x >= y THEN x ELSE y

LastMerge == op.name = "merge"
\* Receiver and argument before the last merge, receiver after it.
A0 == pre[op.i]
B0 == pre[op.j]
A1 == tree[op.i]

LastTake == op.name = "find_continuation_remove"
\* The node find_continuation_remove acted on, before and after the call.
TakeNode0 == NodeAt(pre[op.i], op.path).val
TakeNode1 == NodeAt(tree[op.i], op.path).val

---------------------------------------------------------------------------
(* C1 *)

\* C1: merge loses no cached work: every move path (each step found by
\* find_continuation) of the receiver or of the argument before a.merge(b)
\* is a move path of the receiver afterwards.
C1_MergeKeepsPaths ==
    LastMerge => (Paths(A0) \cup Paths(B0)) \subseteq Paths(A1)

\* A merge has run in which both trees overlap on a move and each side
\* brings a two-move path the other did not have.
C1_Witness ==
    /\ LastMerge
    /\ Paths(A0) \cap Paths(B0) # {}
    /\ \E p \in Paths(B0) \ Paths(A0) : Len(p) = 2
    /\ \E p \in Paths(A0) \ Paths(B0) : Len(p) = 2

---------------------------------------------------------------------------
(* C2 *)

\* C2 as stated: whenever find_continuation_remove(m) returned a continuation,
\* continuation_exists(m) is false on that node right afterwards and a second
\* find_continuation_remove(m) returns nothing.
C2_TakeLeavesNoEntry ==
    (LastTake /\ taken.some) =>
        /\ ~ContinuationExists(TakeNode1, op.move)
        /\ ~FindContinuationRemove(TakeNode1, op.move).ret.some

\* C2 (amended): a successful find_continuation_remove(m) leaves the node with
\* exactly one entry for m fewer; when the node held exactly one entry for m,
\* continuation_exists(m) is false afterwards and a second
\* find_continuation_remove(m) returns nothing.
C2_TakeRemovesOneEntry ==
    (LastTake /\ taken.some) =>
        /\ EntriesFor(TakeNode1, op.move) = EntriesFor(TakeNode0, op.move) - 1
        /\ EntriesFor(TakeNode0, op.move) = 1 =>
              /\ ~ContinuationExists(TakeNode1, op.move)
              /\ ~FindContinuationRemove(TakeNode1, op.move).ret.some

\* A take has returned the only entry for its move, from a node below the
\* root, after an earlier operation.
C2_Witness ==
    /\ LastTake /\ taken.some
    /\ EntriesFor(TakeNode0, op.move) = 1
    /\ op.path # <<>>
    /\ nops >= 2

---------------------------------------------------------------------------
(* C3 *)

\* C3 as stated: after a.merge(b) the receiver's total_continuation_boards is
\* at least the larger of the two totals before the merge.
C3_MergedTotalAtLeastLarger ==
    LastMerge =>
        TotalContinuationBoards(A1) >=
            Max(TotalContinuationBoards(A0), TotalContinuationBoards(B0))

\* C3 (amended): after a.merge(b) the receiver's total is at least its own
\* total before the merge, and at least the argument's total when no node of
\* the argument holds two entries with the same move.
C3_MergedTotalAmended ==
    LastMerge =>
        /\ TotalContinuationBoards(A1) >= TotalContinuationBoards(A0)
        /\ NoDupTree(B0) =>
              TotalContinuationBoards(A1) >= TotalContinuationBoards(B0)

\* A merge has run whose duplicate-free argument was strictly larger than
\* the receiver, both non-empty.
C3_Witness ==
    /\ LastMerge
    /\ NoDupTree(B0)
    /\ TotalContinuationBoards(A0) >= 1
    /\ TotalContinuationBoards(B0) > TotalContinuationBoards(A0)

---------------------------------------------------------------------------
(* C4 *)

\* C4: when no node of a or b holds two entries with the same move, after
\* a.merge(b) no node of a does either; at every node present in both trees
\* the result is the merge of the two nodes (one entry per move), and a node
\* whose move is absent from a at that place is b's subtree, adopted whole.
C4_MergeRecursiveNoDuplicates ==
    (LastMerge /\ NoDupTree(A0) /\ NoDupTree(B0)) =>
        /\ NoDupTree(A1)
        /\ \A p \in Paths(A0) \cap Paths(B0) :
              /\ NodeAt(A1, p).val = Merge(NodeAt(A0, p).val, NodeAt(B0, p).val)
              /\ EntriesFor(NodeAt(A1, SubSeq(p, 1, Len(p) - 1)).val,
                            p[Len(p)]) = 1
        /\ \A p \in Paths(B0) \ Paths(A0) :
              NodeAt(A1, p).val = NodeAt(B0, p).val

\* A merge of two duplicate-free trees has run with a move present in both,
\* whose subtree in the receiver was not empty and gained a path from b.
C4_Witness ==
    /\ LastMerge /\ NoDupTree(A0) /\ NoDupTree(B0)
    /\ \E p \in Paths(A0) \cap Paths(B0) :
          /\ Paths(NodeAt(A0, p).val) # {}
          /\ Paths(NodeAt(B0, p).val) \ Paths(NodeAt(A0, p).val) # {}

---------------------------------------------------------------------------
(* C5 *)

\* C5: for duplicate-free trees, after a.merge(b) the receiver's total equals
\* the number of distinct non-empty move paths of a or b before the merge;
\* when every path of a is a path of b it equals b's total before the merge.
C5_MergedTotalCountsDistinctPaths ==
    (LastMerge /\ NoDupTree(A0) /\ NoDupTree(B0)) =>
        /\ TotalContinuationBoards(A1) = Cardinality(Paths(A0) \cup Paths(B0))
        /\ Paths(A0) \subseteq Paths(B0) =>
              TotalContinuationBoards(A1) = TotalContinuationBoards(B0)

\* The merge_two_simple test: a holds e2e4, b holds e2e4 and e7e5 below it.
C5_Witness ==
    /\ LastMerge /\ NoDupTree(A0) /\ NoDupTree(B0)
    /\ Paths(A0) = {<<"e2e4">>}
    /\ Paths(B0) = {<<"e2e4">>, <<"e2e4", "e7e5">>}
    /\ TotalContinuationBoards(A1) = 2

---------------------------------------------------------------------------
(* C6 *)

\* C6 as stated: a.merge(b) and b.merge(a) leave trees with the same set of
\* move paths and the same total_continuation_boards.
C6_MergeDirectionFree ==
    LastMerge =>
        /\ Paths(A1) = Paths(Merge(B0, A0))
        /\ TotalContinuationBoards(A1) =
               TotalContinuationBoards(Merge(B0, A0))

\* C6 (amended): when no node of a or b holds two entries with the same move,
\* a.merge(b) and b.merge(a) leave trees with the same set of move paths and
\* the same total_continuation_boards.
C6_MergeDirectionFreeNoDup ==
    (LastMerge /\ NoDupTree(A0) /\ NoDupTree(B0)) =>
        /\ Paths(A1) = Paths(Merge(B0, A0))
        /\ TotalContinuationBoards(A1) =
               TotalContinuationBoards(Merge(B0, A0))

\* A merge of two duplicate-free trees has run where each side held a path
\* the other lacked, so the two directions build different trees.
C6_Witness ==
    /\ LastMerge /\ NoDupTree(A0) /\ NoDupTree(B0)
    /\ Paths(A0) \ Paths(B0) # {}
    /\ Paths(B0) \ Paths(A0) # {}
    /\ Paths(A0) \cap Paths(B0) # {}
    /\ A1 # Merge(B0, A0)

---------------------------------------------------------------------------
(* Vocabulary of the board claims                                           *)

LastSetLoc == bop.name = "set_loc"

\* A king of the colour stands on some square, read by the index operator.
KingPresent(board, color) ==
    \E r \in Rows, c \in Cols : Index(board, r, c) = Piece("King", color)

BishopPresent(board) ==
    \E r \in Rows, c \in Cols, col \in Colors :
        Index(board, r, c) = Piece("Bishop", col)

\* The piece values of the claims in units of 2^-22: pawn 1, knight 3,
\* bishop 3.1 (as the f32 literal), rook 5, queen 9, king 0; White counts
\* positive and Black negative.
ClaimedValue(piece) ==
    LET v == CASE piece.kind = "Pawn"   -> F32Unit
               [] piece.kind = "Knight" -> 3 * F32Unit
               [] piece.kind = "Bishop" -> 13002342
               [] piece.kind = "Rook"   -> 5 * F32Unit
               [] piece.kind = "Queen"  -> 9 * F32Unit
               [] piece.kind = "King"   -> 0
    IN IF piece.color = "White" THEN v ELSE 0 - v

\* The material sum without any rounding, in units of 2^-22, over the
\* squares read by the index operator.
ExactMaterial(board) ==
    LET V(r, c) == IF Index(board, r, c).some
                   THEN ClaimedValue(Index(board, r, c).val) ELSE 0
        RowSum(r) == V(r, 0) + V(r, 1) + V(r, 2) + V(r, 3)
                     + V(r, 4) + V(r, 5) + V(r, 6) + V(r, 7)
    IN RowSum(0) + RowSum(1) + RowSum(2) + RowSum(3)
       + RowSum(4) + RowSum(5) + RowSum(6) + RowSum(7)

\* A material score in units of 2^-22.
UnitsOf(x) == x.whole * F32Unit + x.frac

\* 0.01 in units of 2^-22.
Tolerance == F32Unit \div 100

---------------------------------------------------------------------------
(* C7 *)

\* C7: packed-board round trip: after set_loc((row, col), v), for any square,
\* any board content and v empty or one of the 12 pieces, the index operator
\* reads v at (row, col).
C7_SetThenGet ==
    LastSetLoc => Index(raw, bop.row, bop.col) = bop.piece

\* A White piece was written into column 7 over a different piece.
C7_Witness ==
    /\ LastSetLoc
    /\ bop.col = 7
    /\ bop.piece.some /\ bop.piece.val.color = "White"
    /\ Index(rawPre, bop.row, bop.col).some
    /\ Index(rawPre, bop.row, bop.col) # bop.piece

---------------------------------------------------------------------------
(* C8 *)

\* C8: the i-th item of an iteration (i in 0..63) is the value the index
\* operator reads at (i div 8, i mod 8), and the 65th and later calls of
\* next yield nothing.
C8_IterationRowMajor ==
    (it.some /\ it.val.calls >= 1) =>
        LET i == it.val.calls - 1
        IN IF i < 64
           THEN item = Some(Index(raw, i \div 8, i % 8))
           ELSE item = None

\* The 60th call on the starting position yielded the Black queen of d8.
C8_Witness ==
    /\ it.some /\ it.val.calls = 60
    /\ raw = StartingPosition
    /\ item = Some(Piece("Queen", "Black"))
    /\ Index(raw, 7, 3) = Piece("Queen", "Black")

---------------------------------------------------------------------------
(* C9 *)

\* C9: mate sentinel precedence of score(): with both kings on the board the
\* result is the accumulated material sum; with a White king and no Black
\* king it is +MATE; with no White king it is -MATE, with or without a
\* Black king.
C9_MatePrecedence ==
    scoreRes.some =>
        LET wk == KingPresent(raw, "White")
            bk == KingPresent(raw, "Black")
        IN /\ (wk /\ bk) =>
                 /\ scoreRes.val = F32FromUnits(ScoreFold(raw).loc_score)
                 /\ Abs(UnitsOf(scoreRes.val) - ExactMaterial(raw)) <= Tolerance
           /\ (wk /\ ~bk) => scoreRes.val = MateScore
           /\ ~wk => scoreRes.val = NegMateScore

\* score() ran after a set_loc took the White king off the starting
\* position, the Black king still on the board.
C9_Witness ==
    /\ scoreRes.some
    /\ LastSetLoc
    /\ rawPre = StartingPosition
    /\ ~KingPresent(raw, "White") /\ KingPresent(raw, "Black")
    /\ scoreRes.val = NegMateScore

---------------------------------------------------------------------------
(* C10 *)

\* C10 as stated: on a board holding both kings score() equals the sum of
\* the piece values over the occupied squares (so equal material scores 0).
C10_ScoreIsExactSum ==
    (scoreRes.some /\ KingPresent(raw, "White") /\ KingPresent(raw, "Black")) =>
        UnitsOf(scoreRes.val) = ExactMaterial(raw)

\* C10 (amended): on a board holding both kings score() is the f32
\* accumulation of the piece values in iteration order: it equals the sum of
\* the piece values when the board holds no bishop, lies within 0.01 of it
\* otherwise, and is exactly 0 on the standard starting position.
C10_ScoreIsRoundedSum ==
    (scoreRes.some /\ KingPresent(raw, "White") /\ KingPresent(raw, "Black")) =>
        /\ ~BishopPresent(raw) => UnitsOf(scoreRes.val) = ExactMaterial(raw)
        /\ Abs(UnitsOf(scoreRes.val) - ExactMaterial(raw)) <= Tolerance
        /\ raw = StartingPosition => scoreRes.val = F32FromUnits(0)

\* score() ran after a set_loc on a board with both kings and bishops whose
\* accumulated sum is not the unrounded one.
C10_Witness ==
    /\ scoreRes.some /\ LastSetLoc
    /\ KingPresent(raw, "White") /\ KingPresent(raw, "Black")
    /\ BishopPresent(raw)
    /\ UnitsOf(scoreRes.val) # ExactMaterial(raw)
    /\ ExactMaterial(raw) # 0

---------------------------------------------------------------------------
(* C11 *)

LastIsMate == bop.name = "is_mate"

\* x lies less than 50 away from the whole number centre.
NearSentinel(x, centre) ==
    /\ F32Less([whole |-> centre - 50, frac |-> 0], x)
    /\ F32Less(x, [whole |-> centre + 50, frac |-> 0])

\* The largest material sum 64 squares allow next to two kings: 62 queens.
MaxMaterial == [whole |-> (64 - 2) * 9, frac |-> 0]

\* C11: is_mate(x) is true exactly when x lies within 50 of MATE (1000) or
\* of -MATE, the window taken open (950 and 1050 themselves are outside) and
\* NaN lying in no window; both sentinels and every value score() returns
\* for a board missing a king are mate scores; every value score() returns
\* for a board with both kings, and every value of size up to 62 queens, is
\* not.
C11_IsMateWindow ==
    LastIsMate =>
        /\ mate.val <=> (/\ bop.arg # NaN
                         /\ \/ NearSentinel(bop.arg, MATE)
                            \/ NearSentinel(bop.arg, 0 - MATE))
        /\ bop.arg \in {MateScore, NegMateScore} => mate.val
        /\ (bop.from_score /\ ~(KingPresent(raw, "White") /\ KingPresent(raw, "Black")))
              => mate.val
        /\ (bop.from_score /\ KingPresent(raw, "White") /\ KingPresent(raw, "Black"))
              => ~mate.val
        /\ (bop.arg # NaN /\ ~F32Less(MaxMaterial, F32Abs(bop.arg))) => ~mate.val

\* is_mate returned true for the score of the board left by a set_loc that
\* took the Black king off the starting position.
C11_Witness ==
    /\ LastIsMate /\ bop.from_score
    /\ rawPre = StartingPosition
    /\ KingPresent(raw, "White") /\ ~KingPresent(raw, "Black")
    /\ bop.arg = MateScore
    /\ mate = Some(TRUE)

\* is_mate returned true for a value next to the lower edge of the window
\* around -MATE that is not a sentinel.
C11_WitnessEdge ==
    /\ LastIsMate /\ ~bop.from_score
    /\ bop.arg # NaN
    /\ bop.arg.whole = 0 - MATE - 50
    /\ mate = Some(TRUE)

---------------------------------------------------------------------------
(* Vocabulary of the claims about the queries                               *)

\* The node a query ran on and its reference node.
QueryNode(q) == NodeAt(tree[q.i], q.path).val
QueryRef(q) == NodeAt(tree[q.i], q.rpath).val

IsChildOf(c, n) == \E k \in 1..Len(Values(n)) : Values(n)[k] = c

\* |a - b| < 0.05 for two scores, in exact arithmetic on counts of 2^-22;
\* false when either score is NaN.
ScoresWithinEpsilon(a, b) ==
    /\ a # NaN /\ b # NaN
    /\ 20 * Abs((a.whole - b.whole) * F32Unit + a.frac - b.frac) < F32Unit

---------------------------------------------------------------------------
(* C12 *)

\* C12 as stated: similar_quality_moves(reference, score_fn) returns only
\* direct children of the node, and every child c it returns has
\* |score_fn(c) - score_fn(reference)| < 0.05, for every score function, the
\* one that reads adjusted_score (NaN on fresh nodes) included.
C12_SimilarWithinEpsilon ==
    similar.some =>
        \A k \in 1..Len(similar.val.nodes) :
            /\ IsChildOf(similar.val.nodes[k], QueryNode(similar.val))
            /\ ScoresWithinEpsilon(
                   ScoreQuery(similar.val.fn, similar.val.nodes[k]),
                   ScoreQuery(similar.val.fn, QueryRef(similar.val)))

\* What the code does instead: it returns, in slot order, the children whose
\* score is within 0.05 of the reference's and, besides, every child for
\* which exactly one of the two scores is NaN.
C12_SimilarExceptNaN ==
    similar.some =>
        LET n   == QueryNode(similar.val)
            ref == ScoreQuery(similar.val.fn, QueryRef(similar.val))
            Keep(c) ==
              LET sc == ScoreQuery(similar.val.fn, c)
              IN \/ ScoresWithinEpsilon(sc, ref)
                 \/ (sc = NaN) # (ref = NaN)
        IN similar.val.nodes = SelectSeq(Values(n), Keep)

\* similar_quality_moves by adjusted_score returned a child whose score is
\* NaN for a reference whose score is a number.
C12_Witness ==
    /\ similar.some
    /\ similar.val.fn = "adjusted_score"
    /\ QueryRef(similar.val).adjusted_score # NaN
    /\ \E k \in 1..Len(similar.val.nodes) :
          similar.val.nodes[k].adjusted_score = NaN

---------------------------------------------------------------------------
(* C13 *)

\* C13: select_similar_board(reference, score_fn) returns, for every value
\* of the random index, a node that similar_quality_moves yields for the
\* same reference and score function; when that yields nothing the call
\* panics instead of returning a node.
C13_SelectWithinSimilar ==
    selected.some =>
        LET found == SimilarQualityMoves(QueryNode(selected.val),
                                         QueryRef(selected.val),
                                         selected.val.fn)
        IN IF Len(found) = 0
           THEN selected.val.outcome = Panic
           ELSE /\ selected.val.outcome # Panic
                /\ \E k \in 1..Len(found) :
                      selected.val.outcome = Some(found[k])

\* select_similar_board returned the second of at least two similar
\* children, by a score function that is never NaN.
C13_Witness ==
    /\ selected.some
    /\ selected.val.fn = "total"
    /\ LET found == SimilarQualityMoves(QueryNode(selected.val),
                                        QueryRef(selected.val),
                                        selected.val.fn)
       IN /\ Len(found) >= 2
          /\ found[2] # found[1]
          /\ selected.val.outcome = Some(found[2])

\* select_similar_board panicked on a node that has children, none of them
\* similar to the reference.
C13_WitnessPanic ==
    /\ selected.some
    /\ selected.val.outcome = Panic
    /\ Len(Values(QueryNode(selected.val))) >= 1

---------------------------------------------------------------------------
(* C14 *)

LastMakeCachedMove == op.name = "make_cached_move"

\* C14: make_cached_move(m) on a node holding an entry for m returns exactly
\* the subtree of that entry (the first one in slot order): same position,
\* adjusted score, nested continuations and total; on a node holding none
\* it returns a new node for the position after m, with unset score, no
\* continuations and total 0.
C14_CachedMoveReturnsSubtree ==
    LastMakeCachedMove =>
        LET n0 == pre[op.i]
            r  == tree[op.i]
        IN IF ContinuationExists(n0, op.move)
           THEN /\ r = FindContinuation(n0, op.move).val
                /\ \E k \in 1..Len(Iter(n0)) :
                      /\ Iter(n0)[k] = <<op.move, r>>
                      /\ \A h \in 1..(k - 1) : Iter(n0)[h][1] # op.move
                /\ TotalContinuationBoards(r) =
                       TotalContinuationBoards(FindContinuation(n0, op.move).val)
           ELSE /\ r.board = Board(n0.board.by, Append(n0.board.after, op.move))
                /\ r.adjusted_score = NaN
                /\ Iter(r) = <<>>
                /\ TotalContinuationBoards(r) = 0

\* make_cached_move returned a cached subtree that holds a continuation of
\* its own.
C14_Witness ==
    /\ LastMakeCachedMove
    /\ ContinuationExists(pre[op.i], op.move)
    /\ TotalContinuationBoards(tree[op.i]) >= 1
    /\ tree[op.i] = FindContinuation(pre[op.i], op.move).val

\* make_cached_move found no entry on a node that holds other entries and
\* returned a new node.
C14_WitnessMiss ==
    /\ LastMakeCachedMove
    /\ ~ContinuationExists(pre[op.i], op.move)
    /\ Len(Iter(pre[op.i])) >= 1
    /\ TotalContinuationBoards(tree[op.i]) = 0

---------------------------------------------------------------------------
(* Vocabulary of the claims about single tree operations                    *)

LastInsert == op.name = "insert_psboard"
\* The node insert_psboard acted on, before and after the call.
InsertNode0 == NodeAt(pre[op.i], op.path).val
InsertNode1 == NodeAt(tree[op.i], op.path).val

\* The entry held by slot s of node n.
EntryAt(n, s) == n.continuation.items[s + 1].value

\* Sum of the totals of the children held in the occupied slots of n.
ChildTotals(n) ==
    LET items == n.continuation.items
        S[k \in 0..Len(items)] ==
          IF k = 0 THEN 0
          ELSE IF items[k].occupied
               THEN S[k - 1] + TotalContinuationBoards(items[k].value[2])
               ELSE S[k - 1]
    IN S[Len(items)]

\* The total of every node of the tree is its number of occupied slots plus
\* the totals of its children.
RECURSIVE TotalLaw(_)
TotalLaw(n) ==
    /\ TotalContinuationBoards(n) =
           Cardinality(OccupiedIdx(n.continuation)) + ChildTotals(n)
    /\ \A s \in OccupiedIdx(n.continuation) : TotalLaw(EntryAt(n, s)[2])

---------------------------------------------------------------------------
(* C15 *)

\* C15: total_continuation_boards of a node is its number of direct entries
\* plus the totals of its direct children (the node itself is not counted);
\* a fresh node reports 0; every insert_psboard on any node of a tree raises
\* the total of the root by exactly 1.
C15_TotalCountsDescendants ==
    /\ \A i \in TreeIds : Live(i) => TotalLaw(tree[i])
    /\ \A i \in TreeIds : TotalContinuationBoards(New(Board(i, <<>>))) = 0
    /\ op.name = "new" => TotalContinuationBoards(tree[op.i]) = 0
    /\ LastInsert =>
          TotalContinuationBoards(tree[op.i]) =
              TotalContinuationBoards(pre[op.i]) + 1

\* insert_psboard ran on a node below the root of a tree that held at least
\* two continuations.
C15_Witness ==
    /\ LastInsert
    /\ op.path # <<>>
    /\ TotalContinuationBoards(pre[op.i]) >= 2
    /\ TotalContinuationBoards(tree[op.i]) = TotalContinuationBoards(pre[op.i]) + 1

---------------------------------------------------------------------------
(* C16 *)

\* C16: insert_psboard(m, board) adds exactly one entry, in a slot that was
\* free, holding m and a fresh child (the board passed, unset score, no
\* continuations), whether or not m already had an entry; every other entry
\* stays; afterwards continuation_exists(m) is true, the number of direct
\* entries is one larger, and continuation_exists(x) is true exactly for the
\* moves x held by some direct entry.
C16_InsertAddsOneFreshEntry ==
    LastInsert =>
        /\ ContinuationExists(InsertNode1, op.move)
        /\ Len(Iter(InsertNode1)) = Len(Iter(InsertNode0)) + 1
        /\ InsertNode1.continuation.len = InsertNode0.continuation.len + 1
        /\ \E s \in OccupiedIdx(InsertNode1.continuation)
                      \ OccupiedIdx(InsertNode0.continuation) :
              /\ OccupiedIdx(InsertNode1.continuation) =
                     OccupiedIdx(InsertNode0.continuation) \cup {s}
              /\ EntryAt(InsertNode1, s)[1] = op.move
              /\ EntryAt(InsertNode1, s)[2].board =
                     Board(op.i, Append(op.path, op.move))
              /\ EntryAt(InsertNode1, s)[2].adjusted_score = NaN
              /\ Iter(EntryAt(InsertNode1, s)[2]) = <<>>
              /\ TotalContinuationBoards(EntryAt(InsertNode1, s)[2]) = 0
        /\ \A t \in OccupiedIdx(InsertNode0.continuation) :
              EntryAt(InsertNode1, t) = EntryAt(InsertNode0, t)
        /\ \A x \in Moves :
              ContinuationExists(InsertNode1, x) <=> EntriesFor(InsertNode1, x) > 0

\* insert_psboard ran for a move the node already held an entry for, and the
\* node now holds two entries for it.
C16_Witness ==
    /\ LastInsert
    /\ EntriesFor(InsertNode0, op.move) = 1
    /\ EntriesFor(InsertNode1, op.move) = 2

---------------------------------------------------------------------------
(* C17 *)

\* C17: find_continuation_remove(m) changes nothing but the entry it
\* returns: when the node holds an entry for m, exactly one entry (the one
\* returned) leaves, the count drops by 1, and every other entry, any other
\* entry for m included, keeps its slot, move and subtree; when it holds
\* none, nothing is returned and the node is unchanged.  The node's own
\* position and score and the other trees are untouched either way.
C17_TakeTouchesOneEntry ==
    LastTake =>
        /\ taken.some =>
              /\ \E s \in OccupiedIdx(TakeNode0.continuation) :
                    /\ EntryAt(TakeNode0, s) = <<op.move, taken.val>>
                    /\ OccupiedIdx(TakeNode1.continuation) =
                           OccupiedIdx(TakeNode0.continuation) \ {s}
              /\ \A t \in OccupiedIdx(TakeNode1.continuation) :
                    EntryAt(TakeNode1, t) = EntryAt(TakeNode0, t)
              /\ Len(Iter(TakeNode1)) = Len(Iter(TakeNode0)) - 1
              /\ TakeNode1.continuation.len = TakeNode0.continuation.len - 1
        /\ ~taken.some =>
              /\ EntriesFor(TakeNode0, op.move) = 0
              /\ TakeNode1 = TakeNode0
        /\ EntriesFor(TakeNode0, op.move) = 0 => ~taken.some
        /\ TakeNode1.board = TakeNode0.board
        /\ TakeNode1.adjusted_score = TakeNode0.adjusted_score
        /\ \A j \in TreeIds \ {op.i} : tree[j] = pre[j]

\* find_continuation_remove returned an entry from a node that held two
\* entries for the move; one of them is still there.
C17_Witness ==
    /\ LastTake /\ taken.some
    /\ EntriesFor(TakeNode0, op.move) = 2
    /\ EntriesFor(TakeNode1, op.move) = 1

---------------------------------------------------------------------------
(* C18 *)

\* C18: set_loc((row, col), piece) overwrites only the 4-bit slot of that
\* square: every other square of the same row reads the same value afterwards
\* as before and keeps its four bits, and every other row keeps its word (a
\* read of a square depends on the word of its row only).
C18_SetLocTouchesOneSquare ==
    LastSetLoc =>
        /\ \A c \in Cols \ {bop.col} :
              Index(raw, bop.row, c) = Index(rawPre, bop.row, c)
        /\ \A r \in Rows \ {bop.row} : raw[r] = rawPre[r]
        /\ \A k \in Cols \ {bop.col} :
              Nibble(raw[bop.row], k) = Nibble(rawPre[bop.row], k)

\* set_loc replaced a piece by a different one on a row whose two
\* neighbouring squares hold pieces.
C18_Witness ==
    /\ LastSetLoc
    /\ bop.col \in 1..6
    /\ Index(rawPre, bop.row, bop.col).some
    /\ Index(raw, bop.row, bop.col) # Index(rawPre, bop.row, bop.col)
    /\ Index(raw, bop.row, bop.col - 1).some
    /\ Index(raw, bop.row, bop.col + 1).some

---------------------------------------------------------------------------
(* C19 *)

\* Every node of a0 is found in a1 in the same slot, under the same move,
\* with the position handle and adjusted_score it had.
RECURSIVE KeepsOwnData(_, _)
KeepsOwnData(a0, a1) ==
    /\ a1.board = a0.board
    /\ a1.adjusted_score = a0.adjusted_score
    /\ \A s \in OccupiedIdx(a0.continuation) :
          /\ s \in OccupiedIdx(a1.continuation)
          /\ EntryAt(a1, s)[1] = EntryAt(a0, s)[1]
          /\ KeepsOwnData(EntryAt(a0, s)[2], EntryAt(a1, s)[2])

\* C19: after a.merge(b) the root of a and every node of a that existed
\* before keep their position handle and adjusted_score; for a path present
\* in both trees the receiver's data stay and b's are gone; a path of b that
\* a did not have leads to a node carrying b's position and adjusted_score.
C19_MergeKeepsReceiverData ==
    LastMerge =>
        /\ KeepsOwnData(A0, A1)
        /\ \A p \in Paths(A0) \cap Paths(B0) :
              /\ NodeAt(A1, p).val.board = NodeAt(A0, p).val.board
              /\ NodeAt(A1, p).val.adjusted_score =
                     NodeAt(A0, p).val.adjusted_score
              /\ NodeAt(A1, p).val.board # NodeAt(B0, p).val.board
        /\ \A p \in Paths(B0) \ Paths(A0) :
              /\ NodeAt(A1, p).val.board = NodeAt(B0, p).val.board
              /\ NodeAt(A1, p).val.adjusted_score =
                     NodeAt(B0, p).val.adjusted_score
        /\ \A p \in Paths(A1) :
              NodeAt(A1, p).val.board.by = op.j => p \notin Paths(A0)

\* A merge ran in which a node present in both trees had a score set in a
\* and a different score set in b, and kept a's.
C19_Witness ==
    /\ LastMerge
    /\ \E p \in Paths(A0) \cap Paths(B0) :
          /\ NodeAt(A0, p).val.adjusted_score # NaN
          /\ NodeAt(B0, p).val.adjusted_score # NaN
          /\ NodeAt(A0, p).val.adjusted_score # NodeAt(B0, p).val.adjusted_score
          /\ NodeAt(A1, p).val.adjusted_score = NodeAt(A0, p).val.adjusted_score

\* A merge adopted from b a node whose adjusted_score had been set.
C19_WitnessAdopted ==
    /\ LastMerge
    /\ \E p \in Paths(B0) \ Paths(A0) :
          /\ NodeAt(B0, p).val.adjusted_score # NaN
          /\ NodeAt(A1, p).val.adjusted_score = NodeAt(B0, p).val.adjusted_score

=============================================================================
